---- MODULE Spec2Model ----
(***************************************************************************)
(* Model of migraid's Migrator: discovery of migration files, computation  *)
(* of the pending list, sequential execution with a commit after every     *)
(* migration, and the applied-set collection keyed by file name.           *)
(*                                                                         *)
(* Two builds of the Migrator live in the repository: the ES-module build  *)
(* (lib/migrator.mjs, variant "mjs") and the CommonJS build (variant       *)
(* "cjs").  They share up() and differ in getMigrationFileNames and        *)
(* interpretFilename.                                                      *)
(*                                                                         *)
(* A string is a sequence of one-character strings.                        *)
(***************************************************************************)
EXTENDS Integers, Sequences, FiniteSets, TLC

\* ------------------------------------------------------------------ bounds
MaxFiles == 3      \* directory entries in one initial directory
MaxApplied == 2    \* records in the collection before the first run
MaxRuns == 2       \* invocations of up() per process
MaxCreates == 2    \* calls of createMigrationFile

\* ------------------------------------------------------------- characters
\* The alphabet of file names: digits, letters and the punctuation that file
\* names of migrations use, each with its UTF-16 code unit.
Digits == << "0", "1", "2", "3", "4", "5", "6", "7", "8", "9" >>
UpperCase ==
  << "A", "B", "C", "D", "E", "F", "G", "H", "I", "J", "K", "L", "M",
     "N", "O", "P", "Q", "R", "S", "T", "U", "V", "W", "X", "Y", "Z" >>
LowerCase ==
  << "a", "b", "c", "d", "e", "f", "g", "h", "i", "j", "k", "l", "m",
     "n", "o", "p", "q", "r", "s", "t", "u", "v", "w", "x", "y", "z" >>

IndexOf(seq, c) == CHOOSE i \in 1..Len(seq) : seq[i] = c
Range(seq) == {seq[i] : i \in 1..Len(seq)}

DigitChars == Range(Digits)
UpperChars == Range(UpperCase)
LowerChars == Range(LowerCase)
Alphabet == DigitChars \cup UpperChars \cup LowerChars \cup {" ", "-", ".", "_"}

\* The UTF-16 code unit of every character of the alphabet.
CharCodes ==
  [c \in Alphabet |->
     CASE c \in DigitChars -> 47 + IndexOf(Digits, c)
       [] c \in UpperChars -> 64 + IndexOf(UpperCase, c)
       [] c \in LowerChars -> 96 + IndexOf(LowerCase, c)
       [] c = " " -> 32
       [] c = "-" -> 45
       [] c = "." -> 46
       [] c = "_" -> 95]

CharCode(c) == CharCodes[c]

\* The regular expression class \w (and [\w_], which is the same class).
WordChars == DigitChars \cup UpperChars \cup LowerChars \cup {"_"}

\* The regular expression class [\w-_]: word characters and the hyphen.
LabelChars == WordChars \cup {"-"}

\* The value undefined, as an array element or a property value.
Undefined == <<"undefined">>

Max(S) == CHOOSE x \in S : \A y \in S : y <= x

\* -------------------------------------------------------------- filenames
\* The last index j >= i-1 such that s[i..j] lies in Cls: the end of a greedy
\* run of the class starting at i.
RECURSIVE RunEnd(_, _, _)
RunEnd(s, i, Cls) ==
  IF i <= Len(s) /\ s[i] \in Cls THEN RunEnd(s, i + 1, Cls) ELSE i - 1

\* /([\w_]+)\.([\w-_]+)\.js/ matched with its first character at position i.
\* Neither class contains the dot, so the greedy runs are the only candidates.
MatchAt(s, i) ==
  LET e1 == RunEnd(s, i, WordChars)
      e2 == RunEnd(s, e1 + 2, LabelChars)
  IN  /\ e1 >= i
      /\ e1 + 1 <= Len(s) /\ s[e1 + 1] = "."
      /\ e2 >= e1 + 2
      /\ e2 + 3 <= Len(s)
      /\ s[e2 + 1] = "." /\ s[e2 + 2] = "j" /\ s[e2 + 3] = "s"

\* String.prototype.match without the g flag: the leftmost match, or null.
HasMatch(s) == \E i \in 1..Len(s) : MatchAt(s, i)

Min(S) == CHOOSE x \in S : \A y \in S : x <= y

FirstMatch(s) ==
  LET i  == Min({a \in 1..Len(s) : MatchAt(s, a)})
      e1 == RunEnd(s, i, WordChars)
      e2 == RunEnd(s, e1 + 2, LabelChars)
  IN  [fileName      |-> SubSeq(s, i, e2 + 3),
       datetime      |-> SubSeq(s, i, e1),
       migrationName |-> SubSeq(s, e1 + 2, e2)]

\* interpretFilename of the ES-module build: throws when nothing matches.
interpretFilenameMjs(filename) ==
  IF HasMatch(filename)
    THEN [threw |-> FALSE] @@ FirstMatch(filename)
    ELSE [threw |-> TRUE, fileName |-> Undefined, datetime |-> Undefined,
          migrationName |-> Undefined]

\* interpretFilename of the CommonJS build: matches = [] when nothing matches,
\* so every property of the result is undefined.
interpretFilenameCjs(filename) ==
  IF HasMatch(filename)
    THEN [threw |-> FALSE] @@ FirstMatch(filename)
    ELSE [threw |-> FALSE, fileName |-> Undefined, datetime |-> Undefined,
          migrationName |-> Undefined]

\* path.extname of a plain file name.
ExtName(s) ==
  LET dots == {i \in 1..Len(s) : s[i] = "."}
  IN  IF dots = {} \/ Max(dots) = 1 \/ s = <<".", ".">>
        THEN <<>>
        ELSE SubSeq(s, Max(dots), Len(s))

\* fileName.replace(/\.ts$/, ".js")
ReplaceTsByJs(s) ==
  IF Len(s) >= 3 /\ SubSeq(s, Len(s) - 2, Len(s)) = <<".", "t", "s">>
    THEN SubSeq(s, 1, Len(s) - 3) \o <<".", "j", "s">>
    ELSE s

\* ----------------------------------------------------------------- sorting
\* a < b in the order Array.prototype.sort uses by default on strings:
\* code unit by code unit, a proper prefix first.
RECURSIVE StrLess(_, _)
StrLess(a, b) ==
  IF b = <<>> THEN FALSE
  ELSE IF a = <<>> THEN TRUE
  ELSE IF CharCode(Head(a)) # CharCode(Head(b))
    THEN CharCode(Head(a)) < CharCode(Head(b))
    ELSE StrLess(Tail(a), Tail(b))

\* The sort order of array elements: undefined goes last.
ElemLess(a, b) ==
  IF a = Undefined THEN FALSE
  ELSE IF b = Undefined THEN TRUE
  ELSE StrLess(a, b)

RECURSIVE InsertSorted(_, _)
InsertSorted(x, seq) ==
  IF seq = <<>> THEN <<x>>
  ELSE IF ElemLess(x, Head(seq)) THEN <<x>> \o seq
  ELSE <<Head(seq)>> \o InsertSorted(x, Tail(seq))

\* A sort() that leaves the array as it is.
SortNamesNone(seq) == seq

\* Array.prototype.sort() without a comparator.
RECURSIVE SortNames(_)
SortNames(seq) ==
  IF seq = <<>> THEN <<>>
  ELSE InsertSorted(seq[Len(seq)], SortNames(SubSeq(seq, 1, Len(seq) - 1)))

\* --------------------------------------------------------------- directory
\* A directory is a function from entry names to [kind, mod]: kind is "file"
\* or "dir"; mod says what loading the file as a module yields: "up" (an
\* object with an up function), "noup" (an object without one), "none" (not a
\* module).
Str_js == <<".", "j", "s">>
Str_ts == <<".", "t", "s">>

\* Base names of authored migrations: three well-formed ones, one that has no
\* sort key, one whose sort key holds a hyphen, and one that names a directory.
Base_1a == <<"1", ".", "a">>
Base_2b == <<"2", ".", "b">>
Base_3c == <<"3", ".", "c">>
Base_foo == <<"f", "o", "o">>
Base_x2b == <<"x", "-", "2", ".", "b">>
Base_0d == <<"0", ".", "d">>
Bases == {Base_1a, Base_2b, Base_3c, Base_foo, Base_x2b, Base_0d}

\* What the authored migration with base name b may look like on disk: a
\* module with up, a module without up (2.b and 3.c), an authored file that
\* was never compiled (3.c and foo, ES-module build), a directory (0.d).
Conditions(v, b) ==
  IF b = Base_0d THEN {"directory"}
  ELSE {"up"}
       \cup (IF b \in {Base_2b, Base_3c} THEN {"noup"} ELSE {})
       \cup (IF v = "mjs" /\ b \in {Base_3c, Base_foo} THEN {"uncompiled"} ELSE {})

File(m) == [kind |-> "file", mod |-> m]
Directory == [kind |-> "dir", mod |-> "none"]

\* The directory that holds the authored migrations src (base name ->
\* condition): the CommonJS build keeps <base>.js, the ES-module build keeps
\* <base>.ts next to the compiled <base>.js.
BuildDir(v, src) ==
  LET jsNames == {b \o Str_js : b \in {x \in DOMAIN src : src[x] \in {"up", "noup"}}}
      tsNames == IF v = "mjs"
                   THEN {b \o Str_ts : b \in {x \in DOMAIN src : src[x] # "directory"}}
                   ELSE {}
      dNames  == {b \o (IF v = "mjs" THEN Str_ts ELSE Str_js) :
                    b \in {x \in DOMAIN src : src[x] = "directory"}}
      baseOf(n) == SubSeq(n, 1, Len(n) - 3)
  IN  [n \in jsNames \cup tsNames \cup dNames |->
         IF n \in dNames THEN Directory
         ELSE IF n \in jsNames THEN File(src[baseOf(n)])
         ELSE File("none")]

\* Ids that the collection may hold before the first run: two of files that
\* may be on disk and one whose file is gone.
Id_1a == Base_1a \o Str_js
Id_2b == Base_2b \o Str_js
Id_0z == <<"0", ".", "z", ".", "j", "s">>
AppliedPool == {Id_1a, Id_2b, Id_0z}

\* The elements of a finite set in ascending order.
RECURSIVE SetToSeq(_)
SetToSeq(S) ==
  IF S = {} THEN <<>>
  ELSE LET x == CHOOSE y \in S : TRUE IN <<x>> \o SetToSeq(S \ {x})

Ascending(S) == SortNames(SetToSeq(S))

Reverse(seq) == [i \in 1..Len(seq) |-> seq[Len(seq) + 1 - i]]
Rotate(seq, k) == SubSeq(seq, k + 1, Len(seq)) \o SubSeq(seq, 1, k)

\* Orders in which readdir may list a directory with these names: every
\* rotation of the ascending and of the descending order, so that every entry
\* comes first in some listing and last in another.
ListingOrders(S) ==
  LET asc == Ascending(S)
  IN  {Rotate(asc, k) : k \in 0..(Len(asc) - 1)} \cup
      {Rotate(Reverse(asc), k) : k \in 0..(Len(asc) - 1)} \cup
      (IF S = {} THEN {<<>>} ELSE {})

\* Orders in which find() may return the records of the collection: the
\* insertion order, and each record moved to the end of it. up() reads only
\* the membership and the last element of the result.
FindOrders(coll) ==
  {coll} \cup
  {SubSeq(coll, 1, i - 1) \o SubSeq(coll, i + 1, Len(coll)) \o <<coll[i]>> :
     i \in 1..Len(coll)}

\* ------------------------------------------------------------------ errors
NoError == [kind |-> "none", name |-> <<>>, also |-> <<>>]
Err(k, n) == [kind |-> k, name |-> n, also |-> <<>>]

\* --------------------------------------------------------------- discovery
\* The loop of the ES-module build without the check that the compiled file
\* of an authored file exists.
RECURSIVE ScanMjsNoAccess(_, _, _)
ScanMjsNoAccess(fileNames, d, acc) ==
  IF fileNames = <<>> THEN [error |-> NoError, list |-> acc]
  ELSE LET fileName == Head(fileNames)
           javascriptFilename == ReplaceTsByJs(fileName)
           props == interpretFilenameMjs(javascriptFilename)
       IN  IF d[fileName].kind = "dir" THEN ScanMjsNoAccess(Tail(fileNames), d, acc)
           ELSE IF ExtName(fileName) # Str_ts THEN ScanMjsNoAccess(Tail(fileNames), d, acc)
           ELSE IF props.threw
             THEN [error |-> Err("INVALID_FILENAME", javascriptFilename), list |-> <<>>]
           ELSE ScanMjsNoAccess(Tail(fileNames), d,
                                Append(acc, [fileName |-> props.fileName,
                                             datetime |-> props.datetime,
                                             migrationName |-> props.migrationName]))

\* The loop of getMigrationFileNames of the ES-module build over the entries
\* that readdir returned, acc being migrationFileNames so far.
RECURSIVE ScanMjs(_, _, _)
ScanMjs(fileNames, d, acc) ==
  IF fileNames = <<>> THEN [error |-> NoError, list |-> acc]
  ELSE LET fileName == Head(fileNames)
           javascriptFilename == ReplaceTsByJs(fileName)
           props == interpretFilenameMjs(javascriptFilename)
       IN  IF d[fileName].kind = "dir" THEN ScanMjs(Tail(fileNames), d, acc)
           ELSE IF ExtName(fileName) # Str_ts THEN ScanMjs(Tail(fileNames), d, acc)
           ELSE IF javascriptFilename \notin DOMAIN d
             THEN [error |-> [kind |-> "MISSING_JS", name |-> fileName,
                              also |-> javascriptFilename],
                   list |-> <<>>]
           ELSE IF props.threw
             THEN [error |-> Err("INVALID_FILENAME", javascriptFilename), list |-> <<>>]
           ELSE ScanMjs(Tail(fileNames), d,
                        Append(acc, [fileName |-> props.fileName,
                                     datetime |-> props.datetime,
                                     migrationName |-> props.migrationName]))

\* The same loop of the CommonJS build.
RECURSIVE ScanCjs(_, _, _)
ScanCjs(fileNames, d, acc) ==
  IF fileNames = <<>> THEN [error |-> NoError, list |-> acc]
  ELSE LET fileName == Head(fileNames)
           props == interpretFilenameCjs(fileName)
       IN  IF d[fileName].kind = "dir" THEN ScanCjs(Tail(fileNames), d, acc)
           ELSE ScanCjs(Tail(fileNames), d,
                        Append(acc, [fileName |-> props.fileName,
                                     datetime |-> props.datetime,
                                     migrationName |-> props.migrationName]))

\* getMigrationFileNames: readdir fails, or the entries are scanned in the
\* order readdir returned them.
getMigrationFileNames(v, readdirOk, fileNames, d) ==
  IF ~readdirOk THEN [error |-> Err("READDIR", <<>>), list |-> <<>>]
  ELSE IF v = "mjs" THEN ScanMjs(fileNames, d, <<>>)
  ELSE ScanCjs(fileNames, d, <<>>)

\* A first loop of up() that takes every candidate for new.
NewFileNamesUnfiltered(migrationFileNames, existingMigrations) ==
  [i \in 1..Len(migrationFileNames) |-> migrationFileNames[i].fileName]

\* The first loop of up(): the file names of the candidates that are not in
\* existingMigrations, in discovery order.
RECURSIVE NewFileNames(_, _)
NewFileNames(migrationFileNames, existingMigrations) ==
  IF migrationFileNames = <<>> THEN <<>>
  ELSE LET rest == NewFileNames(Tail(migrationFileNames), existingMigrations)
           f == Head(migrationFileNames).fileName
       IN  IF f \notin Range(existingMigrations) THEN <<f>> \o rest ELSE rest

\* existingMigrations[existingMigrations.length - 1]
LastOf(seq) == IF seq = <<>> THEN Undefined ELSE seq[Len(seq)]

\* --------------------------------------------------------------- scaffold
\* Digits of n in a field of w places, padded with zeros on the left.
RECURSIVE Pad(_, _)
Pad(n, w) == IF w = 0 THEN <<>> ELSE Pad(n \div 10, w - 1) \o <<Digits[(n % 10) + 1]>>

\* moment().format('YYYYMMDD_HHmmss') of the local time t.
FormatTime(t) ==
  Pad(t.year, 4) \o Pad(t.month, 2) \o Pad(t.date, 2) \o <<"_">> \o
  Pad(t.hours, 2) \o Pad(t.minutes, 2) \o Pad(t.seconds, 2)

\* Moments at which createMigrationFile may be called.
Time_A == [year |-> 2024, month |-> 1, date |-> 5, hours |-> 9, minutes |-> 3, seconds |-> 7]
Time_B == [year |-> 2024, month |-> 1, date |-> 5, hours |-> 9, minutes |-> 3, seconds |-> 8]
Time_C == [year |-> 2023, month |-> 12, date |-> 31, hours |-> 23, minutes |-> 59, seconds |-> 50]
Times == {Time_A, Time_B, Time_C}

\* String.prototype.toLocaleLowerCase on the alphabet.
ToLocaleLowerCase(s) ==
  [i \in 1..Len(s) |->
     IF s[i] \in UpperChars THEN LowerCase[IndexOf(UpperCase, s[i])] ELSE s[i]]

\* The regular expression class \s, as far as migration names use it.
WhiteSpace == {" ", "\t", "\n"}

\* A replace without the g flag: the first whitespace character only.
ReplaceFirstWhiteSpace(s) ==
  LET at == {i \in 1..Len(s) : s[i] \in WhiteSpace}
  IN  [i \in 1..Len(s) |-> IF at # {} /\ i = Min(at) THEN "-" ELSE s[i]]

\* .replace(/\s/g, '-')
ReplaceWhiteSpace(s) ==
  [i \in 1..Len(s) |-> IF s[i] \in WhiteSpace THEN "-" ELSE s[i]]

\* The extension of a scaffolded file: .ts in the ES-module build, .js in the
\* CommonJS build.
ScaffoldExt(v) == IF v = "mjs" THEN Str_ts ELSE Str_js

\* migrationFileName of createMigrationFile.
MigrationFileName(v, now, migrationName) ==
  FormatTime(now) \o <<".">> \o ReplaceWhiteSpace(ToLocaleLowerCase(migrationName))
    \o ScaffoldExt(v)

\* What the template is when loaded as a module: the CommonJS template
\* exports up, the TypeScript template is no module before it is compiled.
Template(v) == IF v = "mjs" THEN File("none") ELSE File("up")

\* Values of the migrationName argument: absent, empty, names with upper
\* case letters and whitespace, and names with a dot or an exclamation mark.
Name_AddU == <<"A", "d", " ", "U">>
Name_Gaps == <<"a", " ", "\t", "B">>
Name_x == <<"x">>
Name_Dot == <<"v", "1", ".", "2">>
Name_Bang == <<"a", "!">>
MigrationNames == {Undefined, <<>>, Name_AddU, Name_Gaps, Name_x, Name_Dot, Name_Bang}

\* config.get('migraid.sourcesDirectory'), which is the module default
\* 'migrations' (as is distDirectory), and path.join of it and a name.
SourcesDirectory == <<"m", "i", "g", "r", "a", "t", "i", "o", "n", "s">>
PathJoin(a, b) == a \o <<"/">> \o b

\* fs.writeFile(path, data) with the default flag 'w' on directory d, ok
\* saying whether the directory can be written: it fails when it cannot or
\* when the path is a directory, and otherwise creates the file or replaces
\* the content of the file that is there.
WriteFileFails(d, name, ok) == ~ok \/ (name \in DOMAIN d /\ d[name].kind = "dir")
WriteFile(d, name, data, ok) ==
  IF WriteFileFails(d, name, ok) THEN d
  ELSE [n \in DOMAIN d \cup {name} |-> IF n = name THEN data ELSE d[n]]

\* createMigrationFile({migrationName}) called at the moment now: the error
\* it rejects with, the directory after it and the value it resolves to.
createMigrationFile(v, d, migrationName, now, ok) ==
  LET migrationFileName == MigrationFileName(v, now, migrationName)
  IN  IF migrationName = Undefined \/ migrationName = <<>>
        THEN [error |-> Err("MISSING_MIGRATION_NAME", <<>>), dir |-> d,
              target |-> Undefined, returned |-> Undefined]
      ELSE IF WriteFileFails(d, migrationFileName, ok)
        THEN [error |-> Err("WRITE", migrationFileName), dir |-> d,
              target |-> migrationFileName, returned |-> Undefined]
      ELSE [error |-> NoError,
            dir |-> WriteFile(d, migrationFileName, Template(v), ok),
            target |-> migrationFileName,
            returned |-> IF v = "mjs" THEN PathJoin(SourcesDirectory, migrationFileName)
                         ELSE migrationFileName]

\* ------------------------------------------------------------------- state
VARIABLES
  variant,   \* which build of the Migrator runs: "mjs" or "cjs"
  dir,       \* the migration directory
  readable,  \* whether readdir of the migration directory succeeds
  applied,   \* the _migrations collection: the _id values in insertion order
  run,       \* per process: the current invocation of up()
  prev,      \* per process: how the invocation of up() before the current
             \* one ended (the fields of Outcome)
  created    \* the last call of createMigrationFile

vars == <<variant, dir, readable, applied, run, prev, created>>

Procs == {1, 2}

\* The state of a process that has not called up() yet. Fields of a run:
\*   n        how many times this process has called up()
\*   pc       "idle", "loading", "executing", "committing" (save() called),
\*            "saved" or "rejected" (the server has inserted or refused the
\*            document and the promise of save() has not settled), "completed",
\*            "aborted" or "killed";  at: the pc at which the process was killed
\*   migrationFileNames, existing   the fileName of every candidate in
\*            discovery order, and the set of ids read at the start
\*   newMigrationFileNames  the pending list;  idx: the position in its loop
\*   loaded, started, finished, recorded   the names imported, whose up() was
\*            called, whose up() resolved, and that this run saved, in order
\*   error    the failure that ended the run;  returned, result: its result
\*   lastAdded   the name that the "No new migration scripts" line prints
NoRun ==
  [n |-> 0, pc |-> "idle", at |-> "none", migrationFileNames |-> <<>>, existing |-> {},
   newMigrationFileNames |-> <<>>, idx |-> 0,
   loaded |-> <<>>, started |-> <<>>, finished |-> <<>>, recorded |-> <<>>,
   error |-> NoError, returned |-> FALSE, result |-> <<>>, lastAdded |-> Undefined]

Active == {"loading", "executing", "committing", "saved", "rejected"}

\* What is remembered of a run once the process calls up() again.
Outcome(r) ==
  [NoRun EXCEPT !.n = r.n, !.pc = r.pc, !.at = r.at, !.idx = r.idx,
                !.newMigrationFileNames = r.newMigrationFileNames,
                !.finished = r.finished, !.recorded = r.recorded,
                !.error = r.error, !.returned = r.returned, !.result = r.result]

\* Before the first call of createMigrationFile. Fields of a call:
\*   n        how many calls there have been
\*   migrationName, now   the argument and the moment of the call
\*   before   the directory before the call
\*   target   the name of the file the call was to write
\*   error    the error the call rejected with;  returned: what it resolved to
NoCreate ==
  [n |-> 0, migrationName |-> Undefined, now |-> Time_A, before |-> <<>>,
   target |-> Undefined, error |-> NoError, returned |-> Undefined]

\* The states before the first run: a build, a directory of at most MaxFiles
\* authored migrations with base names in bases, and a collection of at most
\* MaxApplied records with ids in ids.
InitFrom(bases, ids) ==
  /\ variant \in {"mjs", "cjs"}
  /\ \E B \in SUBSET bases :
       /\ Cardinality(B) <= MaxFiles
       /\ \E src \in [B -> {"up", "noup", "uncompiled", "directory"}] :
            /\ \A b \in B : src[b] \in Conditions(variant, b)
            /\ dir = BuildDir(variant, src)
  /\ readable \in BOOLEAN
  /\ \E S \in SUBSET ids :
       /\ Cardinality(S) <= MaxApplied
       /\ applied = Ascending(S)
  /\ run = [p \in Procs |-> NoRun]
  /\ prev = [p \in Procs |-> NoRun]
  /\ created = NoCreate

Init == InitFrom(Bases, AppliedPool)

\* ----------------------------------------------------------------- actions
\* A failure ends the run: up() rejects with the error.
Abort(r, e) == [r EXCEPT !.pc = "aborted", !.error = e]

\* A start of up() that rejects when a recorded id has no candidate.
UpBeginStrict(r, found, existingMigrations) ==
  LET newMigrationFileNames == NewFileNames(found.list, existingMigrations)
      fileNames == {found.list[i].fileName : i \in 1..Len(found.list)}
      lost == Range(existingMigrations) \ fileNames
      r0 == [NoRun EXCEPT !.n = r.n + 1,
                          !.existing = Range(existingMigrations),
                          !.migrationFileNames =
                             [i \in 1..Len(found.list) |-> found.list[i].fileName]]
  IN  IF found.error # NoError THEN Abort(r0, found.error)
      ELSE IF lost # {} THEN Abort(r0, Err("LOST", CHOOSE id \in lost : TRUE))
      ELSE IF Len(newMigrationFileNames) = 0
        THEN [r0 EXCEPT !.pc = "completed", !.returned = TRUE, !.result = <<>>,
                        !.lastAdded = LastOf(existingMigrations)]
      ELSE [r0 EXCEPT !.pc = "loading", !.idx = 1,
                      !.newMigrationFileNames = SortNames(newMigrationFileNames)]

\* The body of up() up to the loop over newMigrationFileNames, called with
\* what getMigrationFileNames and getDeployedMigrations returned.
UpBegin(r, found, existingMigrations) ==
  LET newMigrationFileNames == NewFileNames(found.list, existingMigrations)
      r0 == [NoRun EXCEPT !.n = r.n + 1,
                          !.existing = Range(existingMigrations),
                          !.migrationFileNames =
                             [i \in 1..Len(found.list) |-> found.list[i].fileName]]
  IN  IF found.error # NoError THEN Abort(r0, found.error)
      ELSE IF Len(newMigrationFileNames) = 0
        THEN [r0 EXCEPT !.pc = "completed", !.returned = TRUE, !.result = <<>>,
                        !.lastAdded = LastOf(existingMigrations)]
      ELSE [r0 EXCEPT !.pc = "loading", !.idx = 1,
                      !.newMigrationFileNames = SortNames(newMigrationFileNames)]

\* A process calls up(): discovery, the pending list and its sort.
Start(p) ==
  /\ run[p].pc \notin Active
  /\ run[p].n < MaxRuns
  /\ \E r \in UNION {LET found == getMigrationFileNames(variant, readable, fileNames, dir)
                      IN  {UpBegin(run[p], found, existingMigrations) :
                             existingMigrations \in FindOrders(applied)} :
                      fileNames \in ListingOrders(DOMAIN dir)} :
       run' = [run EXCEPT ![p] = r]
  /\ prev' = [prev EXCEPT ![p] = Outcome(run[p])]
  /\ UNCHANGED <<variant, dir, readable, applied, created>>

\* A loop body that calls up() of whatever module it loaded.
UpLoadUnchecked(r) ==
  LET newMigrationFileName == r.newMigrationFileNames[r.idx]
  IN  IF newMigrationFileName \notin DOMAIN dir
        THEN Abort(r, Err("LOAD", newMigrationFileName))
      ELSE [r EXCEPT !.loaded = Append(@, newMigrationFileName),
                     !.started = Append(@, newMigrationFileName),
                     !.pc = "executing"]

\* import()/require() of the file of the current pending name, the check for
\* up, and the call of up().
UpLoad(r) ==
  LET newMigrationFileName == r.newMigrationFileNames[r.idx]
  IN  IF newMigrationFileName = Undefined
        THEN Abort(r, Err("LOAD", newMigrationFileName))
      ELSE IF newMigrationFileName \notin DOMAIN dir
        THEN Abort(r, Err("LOAD", newMigrationFileName))
      ELSE IF dir[newMigrationFileName].kind # "file"
        THEN Abort(r, Err("LOAD", newMigrationFileName))
      ELSE IF dir[newMigrationFileName].mod # "up"
        THEN Abort([r EXCEPT !.loaded = Append(@, newMigrationFileName)],
                   Err("NO_UP_FUNCTION_AVAILABLE", newMigrationFileName))
      ELSE [r EXCEPT !.loaded = Append(@, newMigrationFileName),
                     !.started = Append(@, newMigrationFileName),
                     !.pc = "executing"]

Load(p) ==
  /\ run[p].pc = "loading"
  /\ run' = [run EXCEPT ![p] = UpLoad(run[p])]
  /\ UNCHANGED <<variant, dir, readable, applied, prev, created>>

\* A loop body that catches the rejection of up() and carries on.
UpSettledIgnoresFailure(r, ok) ==
  LET newMigrationFileName == r.newMigrationFileNames[r.idx]
  IN  [r EXCEPT !.finished = IF ok THEN Append(@, newMigrationFileName) ELSE @,
                !.pc = "committing"]

\* The promise of up() settles: resolved (ok) or rejected.
UpSettled(r, ok) ==
  LET newMigrationFileName == r.newMigrationFileNames[r.idx]
  IN  IF ok
        THEN [r EXCEPT !.finished = Append(@, newMigrationFileName), !.pc = "committing"]
        ELSE Abort(r, Err("UP_FAILED", newMigrationFileName))

UpReturns(p) ==
  /\ run[p].pc = "executing"
  /\ \E ok \in BOOLEAN : run' = [run EXCEPT ![p] = UpSettled(run[p], ok)]
  /\ UNCHANGED <<variant, dir, readable, applied, prev, created>>

\* A collection without a unique key: save() never rejects.
SaveRejectsNever(coll, id) == FALSE

\* A save() that resolves without writing the document.
SavedNothing(coll, id) == coll

\* save() of a document with this _id, _id being the unique key of the
\* collection: whether it rejects, and the collection after it.
SaveRejects(coll, id) == id \in Range(coll)

Saved(coll, id) == IF SaveRejects(coll, id) THEN coll ELSE Append(coll, id)

\* The run once the server has handled the insert of save(): the document is
\* written, or the insert is refused; the promise of save() is still pending.
UpSaving(r, coll) ==
  LET newMigrationFileName == r.newMigrationFileNames[r.idx]
  IN  [r EXCEPT !.pc = IF SaveRejects(coll, newMigrationFileName)
                         THEN "rejected" ELSE "saved"]

\* migration.save() reaches the collection.
Save(p) ==
  /\ run[p].pc = "committing"
  /\ applied' = Saved(applied, run[p].newMigrationFileNames[run[p].idx])
  /\ run' = [run EXCEPT ![p] = UpSaving(run[p], applied)]
  /\ UNCHANGED <<variant, dir, readable, prev, created>>

\* The run after await migration.save() and the end of the loop body.
UpSaved(r) ==
  LET newMigrationFileName == r.newMigrationFileNames[r.idx]
  IN  IF r.pc = "rejected"
        THEN Abort(r, Err("DUPLICATE", newMigrationFileName))
      ELSE IF r.idx = Len(r.newMigrationFileNames)
        THEN [r EXCEPT !.recorded = Append(@, newMigrationFileName),
                       !.pc = "completed", !.returned = TRUE,
                       !.result = r.newMigrationFileNames]
      ELSE [r EXCEPT !.recorded = Append(@, newMigrationFileName),
                     !.pc = "loading", !.idx = @ + 1]

\* The promise of save() settles and up() goes on.
SaveSettles(p) ==
  /\ run[p].pc \in {"saved", "rejected"}
  /\ run' = [run EXCEPT ![p] = UpSaved(run[p])]
  /\ UNCHANGED <<variant, dir, readable, applied, prev, created>>

\* The process is killed while up() runs.
Kill(p) ==
  /\ run[p].pc \in Active
  /\ run' = [run EXCEPT ![p] = [@ EXCEPT !.pc = "killed", !.at = run[p].pc]]
  /\ UNCHANGED <<variant, dir, readable, applied, prev, created>>

Step(p) ==
  Start(p) \/ Load(p) \/ UpReturns(p) \/ Save(p) \/ SaveSettles(p) \/ Kill(p)

\* One process at a time runs up().
Next == Step(1)
Spec == Init /\ [][Next]_vars

\* Two processes run up() once each against the same directory and collection.
InitRace == InitFrom({Base_1a, Base_2b, Base_x2b}, {Id_1a})
StepRace(p) ==
  (run[p].n = 0 /\ Start(p)) \/ Load(p) \/ UpReturns(p) \/ Save(p) \/ SaveSettles(p)
NextRace == \E p \in Procs : StepRace(p)
SpecRace == InitRace /\ [][NextRace]_vars

\* Calls of createMigrationFile, at most MaxCreates of them, on a directory
\* that is empty or holds one entry under a name that a call may produce: a
\* migration that was edited since it was scaffolded, or a directory.
InitCreate ==
  /\ variant \in {"mjs", "cjs"}
  /\ \E held \in {"nothing", "file", "dir"} :
       LET name == MigrationFileName(variant, Time_A, Name_AddU)
       IN  dir = IF held = "nothing" THEN <<>>
                 ELSE IF held = "file" THEN name :> File("noup")
                 ELSE name :> Directory
  /\ readable = TRUE
  /\ applied = <<>>
  /\ run = [p \in Procs |-> NoRun]
  /\ prev = [p \in Procs |-> NoRun]
  /\ created = NoCreate

Create ==
  /\ created.n < MaxCreates
  /\ \E migrationName \in MigrationNames, now \in Times, ok \in BOOLEAN :
       LET call == createMigrationFile(variant, dir, migrationName, now, ok)
       IN  /\ dir' = call.dir
           /\ created' = [n |-> created.n + 1, migrationName |-> migrationName,
                          now |-> now, before |-> dir, target |-> call.target,
                          error |-> call.error, returned |-> call.returned]
  /\ UNCHANGED <<variant, readable, applied, run, prev>>

NextCreate == Create
SpecCreate == InitCreate /\ [][NextCreate]_vars

\* ----------------------------------------------------------- the up command
\* process.exit called with the arguments args: without a code the process
\* ends with process.exitCode, which nothing in the program sets, so with
\* status 0.
ProcessExit(args) == IF args = <<>> THEN 0 ELSE args[1]

\* The exit status of the up command for a run of up() that has ended: when
\* up() resolved the try block is left, when up() rejected the catch block
\* logs the error, and in both cases process.exit() follows without a code.
\* A process that was killed never reaches process.exit().
UpCommandExit(r) ==
  IF r.pc = "completed" THEN ProcessExit(<<>>)
  ELSE IF r.pc = "aborted" THEN ProcessExit(<<>>)
  ELSE Undefined

\* ------------------------------------------------------------------ claims
IsPrefix(a, b) == Len(a) <= Len(b) /\ SubSeq(b, 1, Len(a)) = a
IsAscending(seq) == \A i, j \in 1..Len(seq) : i < j => ~ElemLess(seq[j], seq[i])

\* The set C \ A of a run: the candidates' file names that were not among the
\* ids read at its start.
PendingSet(r) == Range(r.migrationFileNames) \ r.existing

\* C1: a run never calls up() of a migration outside C \ A, and a run in which
\* no step failed has called up() of every migration of C \ A exactly once.
C1_ExactlyPendingOnce ==
  \A p \in Procs :
    LET r == run[p]
    IN  /\ Range(r.started) \subseteq PendingSet(r)
        /\ r.pc = "completed" =>
             /\ Range(r.started) = PendingSet(r)
             /\ Len(r.started) = Cardinality(PendingSet(r))
             /\ r.finished = r.started

\* A run completed after executing two migrations while a third candidate was
\* already applied.
C1_Witness ==
  \E p \in Procs :
    /\ run[p].pc = "completed"
    /\ Len(run[p].started) >= 2
    /\ Range(run[p].migrationFileNames) \cap run[p].existing # {}

\* C2: when up() of the k-th pending migration rejects, the run is aborted
\* with a failure that names migration k, the pending migrations before k are
\* in the collection, migration k and the ones after it are not, and nothing
\* after k was loaded or executed.
C2_FailFast ==
  \A p \in Procs :
    LET r == run[p]
        new == r.newMigrationFileNames
        k == r.idx
    IN  r.error.kind = "UP_FAILED" =>
          /\ r.pc = "aborted"
          /\ r.error.name = new[k]
          /\ \A i \in 1..(k - 1) : new[i] \in Range(applied)
          /\ \A i \in k..Len(new) : new[i] \notin Range(applied)
          /\ Len(r.loaded) = k /\ Len(r.started) = k
          /\ r.recorded = SubSeq(new, 1, k - 1)

\* C3: up() is called in ascending order of fileName whatever the discovery
\* order was: the calls follow the sorted pending list, one at a time, and
\* whenever a < b and up() of b has been called, up() of a has resolved.
C3_AscendingExecution ==
  \A p \in Procs :
    LET r == run[p]
        new == r.newMigrationFileNames
    IN  /\ IsPrefix(r.started, new)
        /\ IsPrefix(r.finished, r.started)
        /\ \A i, j \in 1..Len(new) :
             (ElemLess(new[i], new[j]) /\ j <= Len(r.started)) => i <= Len(r.finished)

\* Three migrations were discovered out of order and all three executed.
C3_Witness ==
  \E p \in Procs :
    /\ Len(run[p].finished) = 3
    /\ ~IsAscending(run[p].migrationFileNames)
    /\ run[p].finished = SortNames(run[p].migrationFileNames)

\* The names whose records the earlier run q committed: the ones it recorded
\* and, when it was killed between the write of save() and its
\* acknowledgement, the one it was saving.
Committed(q) ==
  Range(q.recorded) \cup
    (IF q.pc = "killed" /\ q.at = "saved" THEN {q.newMigrationFileNames[q.idx]} ELSE {})

\* The pending names of the earlier run q from position k on that q did not
\* commit.
Remaining(q, k) ==
  LET NotCommitted(x) == x \notin Committed(q)
  IN  SelectSeq(SubSeq(q.newMigrationFileNames, k, Len(q.newMigrationFileNames)),
                NotCommitted)

\* C4: when a run was killed between two migrations (a record committed, be
\* it acknowledged or not, and the next migration not loaded yet), the next
\* run of the process has as pending list exactly the pending names the
\* killed run had not committed, in the same order, executes along that list,
\* calls up() of none that the killed run had completed, and, when it
\* completes, has recorded all of them.
C4_ResumeAfterKill ==
  \A p \in Procs :
    LET q == prev[p]
        r == run[p]
        next == IF q.at = "saved" THEN q.idx + 1 ELSE q.idx
    IN  (q.pc = "killed" /\ (q.at = "saved" \/ (q.at = "loading" /\ q.idx > 1))) =>
          /\ q.recorded = SubSeq(q.newMigrationFileNames, 1, q.idx - 1)
          /\ Committed(q) = Range(SubSeq(q.newMigrationFileNames, 1, next - 1))
          /\ Committed(q) \subseteq r.existing
          /\ r.newMigrationFileNames = Remaining(q, next)
          /\ IsPrefix(r.started, Remaining(q, next))
          /\ Range(r.started) \cap Range(q.finished) = {}
          /\ r.pc = "completed" => r.recorded = Remaining(q, next)

\* A run was killed after its first commit and the next run executed and
\* recorded the two migrations that were left.
C4_Witness ==
  \E p \in Procs :
    /\ prev[p].pc = "killed" /\ prev[p].at = "loading" /\ prev[p].idx = 2
    /\ run[p].pc = "completed"
    /\ Len(run[p].recorded) = 2

\* C5: after a run aborted because up() of its k-th pending migration
\* rejected, the next run on the unchanged directory has as pending list
\* exactly the earlier pending list from position k on, executes along it and
\* calls up() of none that the aborted run recorded.
C5_ResumeAfterFailure ==
  \A p \in Procs :
    LET q == prev[p]
        r == run[p]
        rest == SubSeq(q.newMigrationFileNames, q.idx, Len(q.newMigrationFileNames))
    IN  q.error.kind = "UP_FAILED" =>
          /\ r.newMigrationFileNames = rest
          /\ IsPrefix(r.started, rest)
          /\ Range(r.started) \cap Range(q.recorded) = {}

\* C6: the run after a run that completed executes nothing, records nothing
\* and returns the empty list.
C6_SecondRunIdle ==
  \A p \in Procs :
    LET q == prev[p]
        r == run[p]
    IN  q.pc = "completed" =>
          /\ r.pc = "completed"
          /\ r.returned /\ r.result = <<>>
          /\ r.newMigrationFileNames = <<>>
          /\ r.loaded = <<>> /\ r.started = <<>> /\ r.recorded = <<>>
          /\ r.existing = Range(applied)

\* A run that executed and recorded two migrations was followed by a run that
\* returned the empty list.
C6_Witness ==
  \E p \in Procs :
    /\ prev[p].pc = "completed"
    /\ Len(prev[p].recorded) = 2
    /\ run[p].pc = "completed"
    /\ run[p].result = <<>>

\* A regular file that the build scans and whose name has no match of the
\* migration pattern.
MalformedIn(d) ==
  {f \in DOMAIN d :
     /\ d[f].kind = "file"
     /\ \/ variant = "cjs" /\ ~HasMatch(f)
        \/ variant = "mjs" /\ ExtName(f) = Str_ts /\ ~HasMatch(ReplaceTsByJs(f))}

\* An authored file without its compiled artifact.
UncompiledIn(d) ==
  {f \in DOMAIN d :
     /\ d[f].kind = "file"
     /\ variant = "mjs" /\ ExtName(f) = Str_ts /\ ReplaceTsByJs(f) \notin DOMAIN d}

\* C7: when the directory is unreadable, holds a file whose name does not
\* match the migration pattern, or lacks a compiled artifact, a run calls
\* up() of no migration, writes no record and does not complete.
C7_DiscoveryErrorsAbortFirst ==
  \A p \in Procs :
    LET r == run[p]
    IN  (r.n >= 1 /\ (~readable \/ MalformedIn(dir) # {} \/ UncompiledIn(dir) # {})) =>
          /\ r.started = <<>>
          /\ r.recorded = <<>>
          /\ r.pc # "completed"

\* C8: no candidate has an undefined or empty fileName, and when a regular
\* file of the directory does not match the migration pattern, discovery
\* fails with an error that names a file.
C8_MalformedNameFails ==
  \A p \in Procs :
    LET r == run[p]
    IN  (r.n >= 1 /\ readable) =>
          /\ Undefined \notin Range(r.migrationFileNames)
          /\ <<>> \notin Range(r.migrationFileNames)
          /\ MalformedIn(dir) # {} =>
               /\ r.pc = "aborted"
               /\ r.error.kind \in {"INVALID_FILENAME", "MISSING_JS"}
               /\ r.error.name \in DOMAIN dir

\* C9: a loaded module without up ends the run with NO_UP_FUNCTION_AVAILABLE
\* at its position k: up() of migration k is not called, migration k is not in
\* the collection, nothing after k is loaded, executed or recorded, and the
\* records of the pending migrations before k are in the collection.
C9_NoUpAborts ==
  \A p \in Procs :
    LET r == run[p]
        new == r.newMigrationFileNames
        k == r.idx
    IN  /\ \A j \in 1..Len(r.loaded) : dir[r.loaded[j]].mod # "up" => j = Len(r.loaded)
        /\ (r.loaded # <<>> /\ dir[r.loaded[Len(r.loaded)]].mod # "up") =>
             /\ r.pc = "aborted"
             /\ r.error = Err("NO_UP_FUNCTION_AVAILABLE", new[k])
             /\ r.loaded = SubSeq(new, 1, k)
             /\ r.started = SubSeq(new, 1, k - 1)
             /\ r.recorded = SubSeq(new, 1, k - 1)
             /\ new[k] \notin Range(r.started)
             /\ new[k] \notin Range(applied)
             /\ \A i \in 1..(k - 1) : new[i] \in Range(applied)
        /\ r.error.kind = "NO_UP_FUNCTION_AVAILABLE" =>
             dir[r.loaded[Len(r.loaded)]].mod = "noup"

\* The second of three pending migrations has no up: the first is recorded,
\* the run is aborted.
C9_Witness ==
  \E p \in Procs :
    /\ run[p].error.kind = "NO_UP_FUNCTION_AVAILABLE"
    /\ run[p].idx = 2
    /\ Len(run[p].newMigrationFileNames) = 3
    /\ Len(run[p].recorded) = 1

\* The state part of C10: the collection holds every id once, and a run that
\* ended with a duplicate-record error is aborted at the position k of the
\* rejected save: the id is in the collection, this run did not record it,
\* and nothing after k was loaded or executed.
C10_State ==
  /\ Len(applied) = Cardinality(Range(applied))
  /\ \A p \in Procs :
       LET r == run[p]
           new == r.newMigrationFileNames
           k == r.idx
       IN  r.error.kind = "DUPLICATE" =>
             /\ r.pc = "aborted" /\ ~r.returned
             /\ r.error.name = new[k]
             /\ new[k] \in Range(applied)
             /\ r.loaded = SubSeq(new, 1, k)
             /\ r.started = SubSeq(new, 1, k)
             /\ r.finished = r.started
             /\ r.recorded = SubSeq(new, 1, k - 1)

\* The step part of C10: when save() reaches the collection with an id that
\* is in it, the collection stays as it is and the insert is refused, and any
\* other id is appended; when the promise of a refused save() settles the run
\* ends with the duplicate-record error and has loaded, executed and recorded
\* nothing more; an accepted save() settles without an error.
C10_Step ==
  \A p \in Procs :
    LET id == run[p].newMigrationFileNames[run[p].idx]
    IN  /\ (run[p].pc = "committing" /\ run'[p].pc \notin {"committing", "killed"}) =>
              IF id \in Range(applied)
                THEN applied' = applied /\ run'[p].pc = "rejected"
                ELSE applied' = Append(applied, id) /\ run'[p].pc = "saved"
        /\ (run[p].pc = "rejected" /\ run'[p].pc \notin {"rejected", "killed"}) =>
              /\ run'[p] = [run[p] EXCEPT !.pc = "aborted", !.error = Err("DUPLICATE", id)]
              /\ id \in Range(applied')
        /\ (run[p].pc = "saved" /\ run'[p].pc \notin {"saved", "killed"}) =>
              /\ run'[p].error = NoError
              /\ run'[p].recorded = Append(run[p].recorded, id)

\* C10: recording an id that is in the collection fails with a
\* duplicate-record error and leaves the collection unchanged, and up()
\* aborts with that error without loading or executing anything further.
C10_DuplicateRecordFatal == [](C10_State) /\ [][C10_Step]_vars

\* Two processes executed the same migration and the one that saved second
\* was rejected.
C10_Witness ==
  \E p, o \in Procs :
    /\ p # o
    /\ run[p].error.kind = "DUPLICATE"
    /\ run[p].error.name \in Range(run[o].recorded)

\* C11 as stated: in the build that reads authored .ts files, when a regular
\* .ts file of a readable directory has no compiled .js file, discovery fails
\* with the missing-artifact error, which names the .ts file and the .js
\* file, and the run executes no migration and writes no record.
C11_MissingArtifactNamed ==
  \A p \in Procs :
    LET r == run[p]
    IN  (variant = "mjs" /\ readable /\ r.n >= 1 /\ UncompiledIn(dir) # {}) =>
          /\ r.pc = "aborted"
          /\ r.error.kind = "MISSING_JS"
          /\ r.error.name \in UncompiledIn(dir)
          /\ r.error.also = ReplaceTsByJs(r.error.name)
          /\ r.started = <<>> /\ r.recorded = <<>>

\* C11, amended: in the build that reads authored .ts files, when a regular
\* .ts file of a readable directory has no compiled .js file, a run ends in
\* discovery: it loads and executes no migration and writes no record.
\* Discovery fails with the error of the first entry it rejects: the
\* missing-artifact error, which names an authored .ts file without artifact
\* and the .js file looked for, or, when the directory holds a compiled file
\* whose name does not match the pattern, possibly the error of
\* interpretFilename, which names the .js file of such an entry. Without
\* such an entry the error is the missing-artifact error.
C11_MissingArtifactFails ==
  \A p \in Procs :
    LET r == run[p]
    IN  (variant = "mjs" /\ readable /\ r.n >= 1) =>
          /\ UncompiledIn(dir) # {} =>
               /\ r.pc = "aborted"
               /\ r.loaded = <<>> /\ r.started = <<>> /\ r.recorded = <<>>
               /\ r.error.kind \in {"MISSING_JS", "INVALID_FILENAME"}
               /\ MalformedIn(dir) \ UncompiledIn(dir) = {} => r.error.kind = "MISSING_JS"
          /\ r.error.kind = "MISSING_JS" =>
               /\ r.error.name \in UncompiledIn(dir)
               /\ ExtName(r.error.name) = Str_ts
               /\ r.error.also = ReplaceTsByJs(r.error.name)
               /\ ExtName(r.error.also) = Str_js
               /\ r.error.also \notin DOMAIN dir
          /\ r.error.kind = "INVALID_FILENAME" =>
               /\ r.error.name \in {ReplaceTsByJs(f) : f \in MalformedIn(dir) \ UncompiledIn(dir)}
               /\ r.error.name \in DOMAIN dir

\* A run failed for a missing compiled file while the directory held a
\* compiled migration that was not applied.
C11_Witness ==
  \E p \in Procs :
    /\ run[p].error.kind = "MISSING_JS"
    /\ \E f \in DOMAIN dir : dir[f].mod = "up" /\ f \notin Range(applied)

\* C12: up() returns a list exactly when the run completed, which it does
\* only without a failure; the list is the names whose up() this run called,
\* whose up() resolved and that this run recorded, in that order, and they are
\* in the collection; a run without failure and with nothing pending returns
\* the empty list.
C12_ReturnsApplied ==
  \A p \in Procs :
    LET r == run[p]
    IN  /\ r.returned <=> r.pc = "completed"
        /\ r.returned =>
             /\ r.error = NoError
             /\ r.result = r.started
             /\ r.result = r.finished
             /\ r.result = r.recorded
             /\ Range(r.result) \subseteq Range(applied)
        /\ ~r.returned => r.result = <<>>
        /\ (r.n >= 1 /\ r.error = NoError /\ PendingSet(r) = {}) =>
             r.returned /\ r.result = <<>>

\* A run returned the two names it executed after the run before it had
\* failed.
C12_Witness ==
  \E p \in Procs :
    /\ run[p].returned
    /\ Len(run[p].result) = 2
    /\ prev[p].pc = "aborted"

\* C13: a run that finds nothing pending while the collection holds records
\* ends successfully with the empty list, and the id its report names is the
\* record applied last or the greatest recorded id, whatever the order in
\* which find() returned the records.
C13_ReportNamesLatest ==
  \A p \in Procs :
    LET r == run[p]
    IN  (r.pc = "completed" /\ r.newMigrationFileNames = <<>> /\ applied # <<>>) =>
          /\ r.returned /\ r.result = <<>>
          /\ \/ r.lastAdded = applied[Len(applied)]
             \/ r.lastAdded = LastOf(Ascending(Range(applied)))

\* C14: the exit status of the up command is zero when up() completed and
\* non-zero when up() failed.
C14_ExitStatusReflectsOutcome ==
  \A p \in Procs :
    LET r == run[p]
    IN  /\ r.pc = "completed" => UpCommandExit(r) = 0
        /\ r.pc = "aborted" => UpCommandExit(r) # 0

\* The number that a string of decimal digits denotes.
RECURSIVE DigitsValue(_)
DigitsValue(s) ==
  IF s = <<>> THEN 0
  ELSE 10 * DigitsValue(SubSeq(s, 1, Len(s) - 1)) + (CharCode(s[Len(s)]) - 48)

\* The moment that a string of the form YYYYMMDD_HHmmss denotes.
ParseTime(s) ==
  [year |-> DigitsValue(SubSeq(s, 1, 4)), month |-> DigitsValue(SubSeq(s, 5, 6)),
   date |-> DigitsValue(SubSeq(s, 7, 8)), hours |-> DigitsValue(SubSeq(s, 10, 11)),
   minutes |-> DigitsValue(SubSeq(s, 12, 13)), seconds |-> DigitsValue(SubSeq(s, 14, 15))]

NameMissing(migrationName) == migrationName = Undefined \/ migrationName = <<>>

\* C15: a call of createMigrationFile without a name or with the empty name
\* fails with MISSING_MIGRATION_NAME and leaves the directory as it was. A
\* call with a non-empty name never fails with that error, and when it
\* succeeds at the moment T the directory differs from the one before in one
\* file, whose name is T as YYYYMMDD_HHmmss (15 characters that read back as
\* T), a dot, the name with every upper case letter in lower case and every
\* whitespace character replaced by a hyphen, and the extension of the build.
C15_ScaffoldName ==
  LET c == created
      t == c.target
      name == c.migrationName
  IN  c.n >= 1 =>
        /\ NameMissing(name) =>
             /\ c.error = Err("MISSING_MIGRATION_NAME", <<>>)
             /\ dir = c.before
        /\ ~NameMissing(name) => c.error.kind # "MISSING_MIGRATION_NAME"
        /\ c.error # NoError => dir = c.before
        /\ (~NameMissing(name) /\ c.error = NoError) =>
             /\ DOMAIN dir = DOMAIN c.before \cup {t}
             /\ \A f \in DOMAIN c.before \ {t} : dir[f] = c.before[f]
             /\ dir[t].kind = "file"
             /\ Len(t) = 15 + 1 + Len(name) + 3
             /\ \A i \in (1..15) \ {9} : t[i] \in DigitChars
             /\ t[9] = "_"
             /\ ParseTime(SubSeq(t, 1, 15)) = c.now
             /\ t[16] = "."
             /\ \A i \in 1..Len(name) :
                  IF name[i] \in WhiteSpace THEN t[16 + i] = "-"
                  ELSE IF name[i] \in UpperChars
                    THEN /\ t[16 + i] \in LowerChars
                         /\ CharCode(t[16 + i]) = CharCode(name[i]) + 32
                  ELSE t[16 + i] = name[i]
             /\ SubSeq(t, Len(t) - 2, Len(t)) = (IF variant = "mjs" THEN Str_ts ELSE Str_js)

\* The second call, with a name that holds two whitespace characters and an
\* upper case letter, wrote the only file of the directory.
C15_Witness ==
  /\ created.n = 2
  /\ created.migrationName = Name_Gaps
  /\ created.error = NoError
  /\ created.target \in DOMAIN dir
  /\ DOMAIN dir = {created.target}

\* C16: a call of createMigrationFile whose target is in the directory fails
\* with a write error and leaves the directory, the entry of the target
\* included, as it was.
C16_NeverOverwrites ==
  LET c == created
  IN  (c.n >= 1 /\ c.target # Undefined /\ c.target \in DOMAIN c.before) =>
        /\ c.error.kind = "WRITE"
        /\ dir = c.before

\* C17: in a run the calls of up() and the commits alternate: at most one
\* up() has been called and has not settled, nothing else happens while it is
\* in progress, and when the k-th pending migration has been loaded the run
\* has recorded the pending migrations 1..k-1 and they are in the collection.
C17_StrictlySequential ==
  \A p \in Procs :
    LET r == run[p]
        new == r.newMigrationFileNames
        k == Len(r.loaded)
    IN  /\ IsPrefix(r.finished, r.started)
        /\ Len(r.started) - Len(r.finished) \in {0, 1}
        /\ Len(r.started) - Len(r.finished) = 1 =>
             \/ r.pc = "executing"
             \/ r.pc = "killed" /\ r.at = "executing"
             \/ r.pc = "aborted" /\ r.error.kind = "UP_FAILED"
        /\ r.pc = "executing" =>
             /\ Len(r.started) = r.idx /\ Len(r.finished) = r.idx - 1
             /\ Len(r.recorded) = r.idx - 1
        /\ r.loaded = SubSeq(new, 1, k)
        /\ k >= 1 =>
             /\ IsPrefix(SubSeq(new, 1, k - 1), r.recorded)
             /\ \A i \in 1..(k - 1) : new[i] \in Range(applied)

\* The third pending migration is being executed and the first two are
\* recorded.
C17_Witness ==
  \E p \in Procs :
    /\ run[p].pc = "executing"
    /\ run[p].idx = 3
    /\ Len(run[p].recorded) = 2

\* The names whose save() a run has attempted: the ones it recorded and the
\* one whose save() was rejected.
Attempted(r) ==
  Range(r.recorded) \cup (IF r.error.kind = "DUPLICATE" THEN {r.error.name} ELSE {})

\* C18: with two invocations of up() on the same directory and collection,
\* in every interleaving the collection holds one record per fileName at
\* most, no fileName is recorded by both invocations, and of a fileName that
\* both attempted to record one invocation recorded it and the other was
\* rejected with the duplicate-record error: it is aborted and has returned
\* nothing.
C18_RaceLoserFails ==
  /\ \A i, j \in 1..Len(applied) : applied[i] = applied[j] => i = j
  /\ \A p, o \in Procs :
       p # o =>
         /\ Range(run[p].recorded) \cap Range(run[o].recorded) = {}
         /\ \A name \in Attempted(run[p]) \cap Attempted(run[o]) :
              \/ /\ name \in Range(run[o].recorded)
                 /\ run[p].error = Err("DUPLICATE", name)
                 /\ run[p].pc = "aborted" /\ ~run[p].returned
              \/ /\ name \in Range(run[p].recorded)
                 /\ run[o].error = Err("DUPLICATE", name)
                 /\ run[o].pc = "aborted" /\ ~run[o].returned
         /\ run[p].pc = "completed" =>
              /\ run[p].error = NoError
              /\ run[p].result = run[p].recorded

\* Both invocations executed the same migration; the one that saved first
\* went on and completed, the other one was rejected.
C18_Witness ==
  \E p, o \in Procs :
    /\ p # o
    /\ run[o].pc = "completed"
    /\ run[p].error.kind = "DUPLICATE"
    /\ run[p].error.name \in Range(run[p].finished) \cap Range(run[o].recorded)
    /\ Len(run[o].recorded) = 2

\* The records that a run has added to the collection.
AddedBy(r) == Range(applied) \ r.existing

\* C19: every record a run has added is the one of a migration whose up()
\* had resolved in this run before, the run has added every record it holds
\* for recorded, and a pending migration whose load or up() failed or that
\* the run has not reached has no record added by the run.
C19_RecordsOnlyAfterSuccess ==
  \A p \in Procs :
    LET r == run[p]
        new == r.newMigrationFileNames
    IN  r.n >= 1 =>
          /\ IsPrefix(r.recorded, r.finished)
          /\ Range(r.recorded) \subseteq AddedBy(r)
          /\ AddedBy(r) \subseteq Range(r.finished)
          /\ \A i \in 1..Len(new) : i > Len(r.finished) => new[i] \notin AddedBy(r)

\* The regular files of directory d that discovery turns into candidates, and
\* the name of the file that is loaded for such a file.
Scanned(d) ==
  {f \in DOMAIN d : d[f].kind = "file" /\ (variant = "mjs" => ExtName(f) = Str_ts)}
LoadedFor(f) == IF variant = "mjs" THEN ReplaceTsByJs(f) ELSE f

\* C20: when discovery succeeds the candidates have pairwise distinct
\* fileNames, one for every scanned file, and the fileName of a candidate is
\* the whole name of the file that is loaded for it.
C20_DistinctFullNames ==
  \A p \in Procs :
    LET r == run[p]
        names == r.migrationFileNames
    IN  (r.n >= 1 /\ r.error.kind \notin {"READDIR", "MISSING_JS", "INVALID_FILENAME"}) =>
          /\ \A i, j \in 1..Len(names) : names[i] = names[j] => i = j
          /\ Len(names) = Cardinality(Scanned(dir))
          /\ Range(names) = {LoadedFor(f) : f \in Scanned(dir)}

\* The ids a run read from the collection for which the directory holds no
\* file.
Gone(r) == {id \in r.existing : id \notin DOMAIN dir}

\* C21: the recorded ids without a file stay in the collection, are not
\* pending, loaded or executed, and no failure of the run names one of them;
\* when discovery succeeded the pending list is the sorted list of the
\* candidates whose fileName is not in the collection.
C21_OrphanRecordsTolerated ==
  \A p \in Procs :
    LET r == run[p]
        NotApplied(f) == f \notin r.existing
    IN  r.n >= 1 =>
          /\ r.existing \subseteq Range(applied)
          /\ Gone(r) \cap Range(r.newMigrationFileNames) = {}
          /\ Gone(r) \cap Range(r.loaded) = {}
          /\ Gone(r) \cap Range(r.started) = {}
          /\ Gone(r) \cap Range(r.recorded) = {}
          /\ r.error.name \notin Gone(r)
          /\ r.error.kind \in {"none", "READDIR", "MISSING_JS", "INVALID_FILENAME", "LOAD",
                               "NO_UP_FUNCTION_AVAILABLE", "UP_FAILED", "DUPLICATE"}
          /\ r.error.kind \notin {"READDIR", "MISSING_JS", "INVALID_FILENAME"} =>
               r.newMigrationFileNames = SortNames(SelectSeq(r.migrationFileNames, NotApplied))

\* A run executed two pending migrations and completed while the collection
\* held two ids without a file, which are still in it.
C21_Witness ==
  \E p \in Procs :
    /\ run[p].pc = "completed"
    /\ Len(run[p].recorded) = 2
    /\ Cardinality(Gone(run[p])) = 2
    /\ Gone(run[p]) \subseteq Range(applied)

\* interpretFilename of the build that runs.
interpretFilename(filename) ==
  IF variant = "mjs" THEN interpretFilenameMjs(filename) ELSE interpretFilenameCjs(filename)

\* C22: the name of a file that createMigrationFile wrote, its extension
\* mapped to .js, is accepted by interpretFilename and parses to itself as
\* fileName, to its first 15 characters (the timestamp) as sort key and to
\* the part between the timestamp and the extension (the slug) as label.
C22_ScaffoldIsDiscoverable ==
  LET c == created
      js == ReplaceTsByJs(c.target)
      props == interpretFilename(js)
  IN  (c.n >= 1 /\ c.error = NoError) =>
        /\ ~props.threw
        /\ props.fileName = js
        /\ props.datetime = SubSeq(js, 1, 15)
        /\ props.datetime = FormatTime(c.now)
        /\ props.migrationName = SubSeq(js, 17, Len(js) - 3)

====
